---- MODULE Spec2Model ----
(***************************************************************************)
(* Isomesh: the lattice sampling / edge-crossing engine (UniformGrid) and  *)
(* the row budget of the QR-based QEF solver (QrQefSolver3D).              *)
(*                                                                         *)
(* Numbers.  Field values and world coordinates are doubles in the code;   *)
(* here they are exact integers, and a quotient of two of them (the edge   *)
(* offset) is kept as an exact fraction [num, den].  uint32_t indices are  *)
(* represented by their residue in [-2^31, 2^31), so 0xFFFFFFFF is -1 and  *)
(* a subtraction that wraps below zero is the same negative residue.       *)
(***************************************************************************)
EXTENDS Integers, Sequences, FiniteSets, TLC

VARIABLES
    pc,          \* "start" | "constructed" | "thrown" : life of the grid object
    err,         \* the exception thrown by the constructor, "none" if none
    argSize,     \* the size argument handed to the constructor
    m_size, m_halfSize, m_globalPos, m_gridStep,
    m_mat,       \* [len, cells]: the material array; cells maps written indices
    m_edgeX, m_edgeY, m_edgeZ,   \* edge-crossing lists, one per axis
    lastField, lastSolver,       \* arguments of the last fill call
    fills,       \* number of fill calls made on the grid so far
    matCalls,    \* log of field.material(point, value) calls of the last fill
    query,       \* last addressing / topology query and its result
    m_usedRows, m_addedPoints,   \* QrQefSolver3D: active rows, points added
    A, m_pointsSum,              \* its working matrix and the sum of the points
    planes,      \* how often each plane of PlaneList was folded into the solver
    lastMerge    \* the other solver of the last call, if that was a merge

gridVars == <<pc, err, argSize, m_size, m_halfSize, m_globalPos, m_gridStep,
              m_mat, m_edgeX, m_edgeY, m_edgeZ, lastField, lastSolver, fills,
              matCalls>>
qefVars == <<m_usedRows, m_addedPoints, A, m_pointsSum, planes, lastMerge>>
vars == <<gridVars, query, qefVars>>

----------------------------------------------------------------------------
(* Bounds of the model *)

\* constructor sizes 0..MaxSmallSize are tried, besides those around the maximum
MaxSmallSize == 9
\* fill is explored on grids of at most this size
MaxFillSize == 4
\* a grid is filled at most this many times
MaxFills == 2
\* indices 0..MaxIndexProbe are handed to indexToPoint, besides the last ones
MaxIndexProbe == 130
\* a solver accumulates at most this many points
MaxPoints == 14

----------------------------------------------------------------------------
(* Materials, common.hpp *)

Empty == "Empty"
Stone == "Stone"
Soil  == "Soil"

----------------------------------------------------------------------------
(* The external collaborators: a family of scalar fields and root finders *)

\* f(p) = a*x + b*y + c*z + d over world coordinates
Fields == [a : {-1, 0, 1}, b : {0, 1}, c : {-1, 1}, d : {-1, 0, 1}]

\* stands for "no field yet"; not a member of Fields (c = 0)
NoField == [a |-> 0, b |-> 0, c |-> 0, d |-> 0]

FieldValue(f, p) == f.a * p[1] + f.b * p[2] + f.c * p[3] + f.d

FieldGrad(f, p) == <<f.a, f.b, f.c>>

\* the material the field reports: it depends on the point and on the value
FieldMaterial(f, p, v) ==
    IF v = 0 THEN Soil
    ELSE IF (p[1] + p[2] + p[3]) % 4 = 0 THEN Stone ELSE Soil

Solvers == {"bisect", "secant"}

\* findAlongX/Y/Z: the coordinate of the zero between lo and hi, given the
\* two endpoint values v0 (at lo) and v1 (at hi), which differ in sign
findAlong(solver, lo, hi, v0, v1) ==
    IF solver = "bisect"
    THEN (lo + hi) \div 2
    ELSE lo + ((hi - lo) * v0) \div (v0 - v1)

----------------------------------------------------------------------------
(* UniformGrid: helpers declared in grid.hpp *)

Self == [m_size |-> m_size, m_halfSize |-> m_halfSize,
         m_globalPos |-> m_globalPos, m_gridStep |-> m_gridStep,
         m_mat |-> m_mat, m_edgeX |-> m_edgeX, m_edgeY |-> m_edgeY,
         m_edgeZ |-> m_edgeZ]

dataSize(g) == (g.m_size + 1) * (g.m_size + 1) * (g.m_size + 1)

localToGlobal(g, p) == [i \in 1..3 |-> g.m_globalPos[i] + g.m_gridStep * p[i]]

\* glm::vec3 operator +
Plus3(u, v) == <<u[1] + v[1], u[2] + v[2], u[3] + v[3]>>

\* UniformGridEdgeStorage::clear and ::addEdge
NoEdges == << >>

addEdge(edges, x, y, z, grad, offset, axis, sign, mat) ==
    Append(edges, [x |-> x, y |-> y, z |-> z, grad |-> grad, offset |-> offset,
                   axis |-> axis, sign |-> sign, mat |-> mat])

----------------------------------------------------------------------------
(* UniformGrid::UniformGrid *)

RECURSIVE BitAnd(_, _)
BitAnd(a, b) ==
    IF a = 0 \/ b = 0 THEN 0
    ELSE (a % 2) * (b % 2) + 2 * BitAnd(a \div 2, b \div 2)

NullMat == [len |-> 0, cells |-> << >>]

\* new Material[n]: n cells, none of them written yet (their content is
\* indeterminate until fill writes them)
NewMat(n) == [len |-> n, cells |-> << >>]

\* mutant: the maximum size itself is refused
CtorLengthCheckOffByOne(size) ==
    IF size >= 1024 THEN "length_error" ELSE "none"

\* the exception the constructor throws for this size, "none" if it returns
CtorLengthCheck(size) ==
    IF size > 1024 THEN "length_error" ELSE "none"

CtorCheck(size) ==
    IF size < 2 THEN "invalid_argument"
    ELSE IF BitAnd(size, size - 1) # 0 THEN "invalid_argument"
    ELSE CtorLengthCheck(size)

Construct(size, globalPos, gridStep) ==
    /\ pc = "start"
    /\ argSize' = size
    /\ err' = CtorCheck(size)
    /\ IF CtorCheck(size) = "none"
       THEN /\ pc' = "constructed"
            /\ m_size' = size
            /\ m_halfSize' = size \div 2
            /\ m_globalPos' = globalPos
            /\ m_gridStep' = gridStep
            /\ m_mat' = NewMat((size + 1) * (size + 1) * (size + 1))
       ELSE /\ pc' = "thrown"
            /\ UNCHANGED <<m_size, m_halfSize, m_globalPos, m_gridStep, m_mat>>
    /\ UNCHANGED <<m_edgeX, m_edgeY, m_edgeZ, lastField, lastSolver, fills,
                   matCalls>>
    /\ UNCHANGED <<query, qefVars>>

---------------------------------------------------------------------------------------------------------------------------------------------------
(* UniformGrid::fill, first pass: sample the field over the whole grid.    *)
(* The loop state st holds the loop counters x, y, z and idx, values,      *)
(* cells (of m_mat), calls (the material calls made) and call_pos.         *)

\* mutant: a value of exactly zero counts as outside
SampleVertexZeroOutside(g, f, st) ==
    LET v == FieldValue(f, st.call_pos)
    IN  [st EXCEPT
           !.values = [st.values EXCEPT ![st.idx] = v],
           !.cells = (st.idx :> (IF v >= 0 THEN Empty
                                 ELSE FieldMaterial(f, st.call_pos, v))) @@ @,
           !.calls = IF v >= 0 THEN @
                     ELSE Append(@, [point |-> st.call_pos, value |-> v]),
           !.idx = @ + 1,
           !.call_pos[3] = @ + g.m_gridStep,
           !.z = @ + 1]

\* mutant: the field is asked for the material of every vertex
SampleVertexAlwaysAsks(g, f, st) ==
    LET v == FieldValue(f, st.call_pos)
    IN  [st EXCEPT
           !.values = [st.values EXCEPT ![st.idx] = v],
           !.cells = (st.idx :> (IF v > 0 THEN Empty
                                 ELSE FieldMaterial(f, st.call_pos, v))) @@ @,
           !.calls = Append(@, [point |-> st.call_pos, value |-> v]),
           !.idx = @ + 1,
           !.call_pos[3] = @ + g.m_gridStep,
           !.z = @ + 1]

\* one iteration of the innermost loop, its z++ included
SampleVertex(g, f, st) ==
    LET v == FieldValue(f, st.call_pos)
    IN  [st EXCEPT
           !.values = [st.values EXCEPT ![st.idx] = v],
           !.cells = (st.idx :> (IF v > 0 THEN Empty
                                 ELSE FieldMaterial(f, st.call_pos, v))) @@ @,
           !.calls = IF v > 0 THEN @
                     ELSE Append(@, [point |-> st.call_pos, value |-> v]),
           !.idx = @ + 1,
           !.call_pos[3] = @ + g.m_gridStep,
           !.z = @ + 1]

RECURSIVE SampleZ(_, _, _)
SampleZ(g, f, st) ==
    IF st.z <= g.m_halfSize THEN SampleZ(g, f, SampleVertex(g, f, st)) ELSE st

RECURSIVE SampleX(_, _, _, _)
SampleX(g, f, st, lowest_point) ==
    IF st.x <= g.m_halfSize
    THEN SampleX(g, f,
                 [SampleZ(g, f, [st EXCEPT !.call_pos[3] = lowest_point[3],
                                           !.z = -g.m_halfSize])
                    EXCEPT !.call_pos[1] = @ + g.m_gridStep, !.x = @ + 1],
                 lowest_point)
    ELSE st

RECURSIVE SampleY(_, _, _, _)
SampleY(g, f, st, lowest_point) ==
    IF st.y <= g.m_halfSize
    THEN SampleY(g, f,
                 [SampleX(g, f, [st EXCEPT !.call_pos[1] = lowest_point[1],
                                           !.x = -g.m_halfSize], lowest_point)
                    EXCEPT !.call_pos[2] = @ + g.m_gridStep, !.y = @ + 1],
                 lowest_point)
    ELSE st

Sample(g, f) ==
    LET lowest_point == localToGlobal(g, <<-g.m_halfSize, -g.m_halfSize,
                                           -g.m_halfSize>>)
    IN  SampleY(g, f,
                [x |-> 0, y |-> -g.m_halfSize, z |-> 0,
                 idx |-> 0,
                 values |-> [i \in 0..(dataSize(g) - 1) |-> 0],
                 cells |-> g.m_mat.cells,
                 calls |-> << >>,
                 call_pos |-> lowest_point],
                lowest_point)

----------------------------------------------------------------------------
(* UniformGrid::fill, second pass: zero crossings on the grid edges.       *)
(* The loop state st holds the loop counters x, y, z and idx1, idx2 and    *)
(* the edge list being built; smp is the result of the first pass.         *)

\* mutant: the material is taken from the outside endpoint
ScanEdgeOutsideMat(g, f, solver, smp, st, axis) ==
    LET v1 == smp.values[st.idx1]
        v2 == smp.values[st.idx2]
        sign1 == (v1 <= 0)
        sign2 == (v2 <= 0)
        p == localToGlobal(g, <<st.x, st.y, st.z>>)
        c0 == p[axis + 1]
        c1 == p[axis + 1] + g.m_gridStep
        root == findAlong(solver, c0, c1, v1, v2)
        q == [p EXCEPT ![axis + 1] = root]
        grad == FieldGrad(f, q)
        offset == [num |-> root - c0, den |-> g.m_gridStep]
        mat == IF sign1 THEN smp.cells[st.idx2] ELSE smp.cells[st.idx1]
    IN  [st EXCEPT
           !.edges = IF sign1 # sign2
                     THEN addEdge(@, st.x, st.y, st.z, grad, offset, axis,
                                  sign1, mat)
                     ELSE @,
           !.idx1 = @ + 1,
           !.idx2 = @ + 1,
           !.z = @ + 1]

\* the body of the innermost loop of each of the three scans (axis 0, 1, 2 for
\* X, Y, Z), its z++ included
ScanEdge(g, f, solver, smp, st, axis) ==
    LET v1 == smp.values[st.idx1]
        v2 == smp.values[st.idx2]
        sign1 == (v1 <= 0)
        sign2 == (v2 <= 0)
        p == localToGlobal(g, <<st.x, st.y, st.z>>)
        c0 == p[axis + 1]
        c1 == p[axis + 1] + g.m_gridStep
        root == findAlong(solver, c0, c1, v1, v2)
        q == [p EXCEPT ![axis + 1] = root]
        grad == FieldGrad(f, q)
        offset == [num |-> root - c0, den |-> g.m_gridStep]
        mat == IF sign1 THEN smp.cells[st.idx1] ELSE smp.cells[st.idx2]
    IN  [st EXCEPT
           !.edges = IF sign1 # sign2
                     THEN addEdge(@, st.x, st.y, st.z, grad, offset, axis,
                                  sign1, mat)
                     ELSE @,
           !.idx1 = @ + 1,
           !.idx2 = @ + 1,
           !.z = @ + 1]

\* Along X
ScanXInit(g) ==
    [x |-> 0, y |-> -g.m_halfSize, z |-> 0,
     idx1 |-> 0, idx2 |-> g.m_size + 1, edges |-> NoEdges]

RECURSIVE ScanXz(_, _, _, _, _)
ScanXz(g, f, solver, smp, st) ==
    IF st.z <= g.m_halfSize
    THEN ScanXz(g, f, solver, smp, ScanEdge(g, f, solver, smp, st, 0))
    ELSE st

RECURSIVE ScanXx(_, _, _, _, _)
ScanXx(g, f, solver, smp, st) ==
    IF st.x < g.m_halfSize
    THEN ScanXx(g, f, solver, smp,
                [ScanXz(g, f, solver, smp, [st EXCEPT !.z = -g.m_halfSize])
                   EXCEPT !.x = @ + 1])
    ELSE st

RECURSIVE ScanXy(_, _, _, _, _)
ScanXy(g, f, solver, smp, st) ==
    IF st.y <= g.m_halfSize
    THEN ScanXy(g, f, solver, smp,
                [ScanXx(g, f, solver, smp, [st EXCEPT !.x = -g.m_halfSize])
                   EXCEPT !.idx1 = @ + g.m_size + 1,
                          !.idx2 = @ + g.m_size + 1,
                          !.y = @ + 1])
    ELSE st

ScanX(g, f, solver, smp) == ScanXy(g, f, solver, smp, ScanXInit(g)).edges

\* Along Y
\* mutant: idx2 starts one X step ahead instead of one Y step
ScanYInitWrongStride(g) ==
    [x |-> 0, y |-> -g.m_halfSize, z |-> 0,
     idx1 |-> 0, idx2 |-> g.m_size + 1, edges |-> NoEdges]

ScanYInit(g) ==
    [x |-> 0, y |-> -g.m_halfSize, z |-> 0,
     idx1 |-> 0, idx2 |-> (g.m_size + 1) * (g.m_size + 1), edges |-> NoEdges]

RECURSIVE ScanYz(_, _, _, _, _)
ScanYz(g, f, solver, smp, st) ==
    IF st.z <= g.m_halfSize
    THEN ScanYz(g, f, solver, smp, ScanEdge(g, f, solver, smp, st, 1))
    ELSE st

RECURSIVE ScanYx(_, _, _, _, _)
ScanYx(g, f, solver, smp, st) ==
    IF st.x <= g.m_halfSize
    THEN ScanYx(g, f, solver, smp,
                [ScanYz(g, f, solver, smp, [st EXCEPT !.z = -g.m_halfSize])
                   EXCEPT !.x = @ + 1])
    ELSE st

RECURSIVE ScanYy(_, _, _, _, _)
ScanYy(g, f, solver, smp, st) ==
    IF st.y < g.m_halfSize
    THEN ScanYy(g, f, solver, smp,
                [ScanYx(g, f, solver, smp, [st EXCEPT !.x = -g.m_halfSize])
                   EXCEPT !.y = @ + 1])
    ELSE st

ScanY(g, f, solver, smp) == ScanYy(g, f, solver, smp, ScanYInit(g)).edges

\* Along Z
\* mutant: the Z list is not cleared
ScanZInitNoClear(g) ==
    [x |-> 0, y |-> -g.m_halfSize, z |-> 0,
     idx1 |-> 0, idx2 |-> 1, edges |-> g.m_edgeZ]

ScanZInit(g) ==
    [x |-> 0, y |-> -g.m_halfSize, z |-> 0,
     idx1 |-> 0, idx2 |-> 1, edges |-> NoEdges]

RECURSIVE ScanZz(_, _, _, _, _)
ScanZz(g, f, solver, smp, st) ==
    IF st.z < g.m_halfSize
    THEN ScanZz(g, f, solver, smp, ScanEdge(g, f, solver, smp, st, 2))
    ELSE st

RECURSIVE ScanZx(_, _, _, _, _)
ScanZx(g, f, solver, smp, st) ==
    IF st.x <= g.m_halfSize
    THEN ScanZx(g, f, solver, smp,
                [ScanZz(g, f, solver, smp, [st EXCEPT !.z = -g.m_halfSize])
                   EXCEPT !.idx1 = @ + 1, !.idx2 = @ + 1, !.x = @ + 1])
    ELSE st

RECURSIVE ScanZy(_, _, _, _, _)
ScanZy(g, f, solver, smp, st) ==
    IF st.y <= g.m_halfSize
    THEN ScanZy(g, f, solver, smp,
                [ScanZx(g, f, solver, smp, [st EXCEPT !.x = -g.m_halfSize])
                   EXCEPT !.y = @ + 1])
    ELSE st

ScanZ(g, f, solver, smp) == ScanZy(g, f, solver, smp, ScanZInit(g)).edges

-----
(* UniformGrid::fill as a whole *)

\* the grid after fill (f, solver), with the material calls the fill made
FillResult(g, f, solver) ==
    LET smp == Sample(g, f)
    IN  [grid  |-> [g EXCEPT !.m_mat.cells = smp.cells,
                             !.m_edgeX = ScanX(g, f, solver, smp),
                             !.m_edgeY = ScanY(g, f, solver, smp),
                             !.m_edgeZ = ScanZ(g, f, solver, smp)],
         calls |-> smp.calls]

Fill(f, solver) ==
    /\ pc = "constructed"
    /\ m_size <= MaxFillSize
    /\ fills < MaxFills
    /\ \E r \in {FillResult(Self, f, solver)} :
           /\ m_mat' = r.grid.m_mat
           /\ m_edgeX' = r.grid.m_edgeX
           /\ m_edgeY' = r.grid.m_edgeY
           /\ m_edgeZ' = r.grid.m_edgeZ
           /\ matCalls' = r.calls
    /\ lastField' = f
    /\ lastSolver' = solver
    /\ fills' = fills + 1
    /\ UNCHANGED <<pc, err, argSize, m_size, m_halfSize, m_globalPos, m_gridStep>>
    /\ UNCHANGED <<query, qefVars>>

---------------------------------------------------------------------------------------------------------------------------------------------------
(* UniformGrid: addressing and topology queries *)

kBadIndex == -1

\* glm::abs
Abs(v) == IF v < 0 THEN -v ELSE v

isVertexInGrid(g, x, y, z) ==
    IF Abs(x) > g.m_halfSize THEN FALSE
    ELSE IF Abs(y) > g.m_halfSize THEN FALSE
    ELSE IF Abs(z) > g.m_halfSize THEN FALSE
    ELSE TRUE

\* mutant: x is the slowest coordinate instead of y
pointToIndexXFirst(g, x, y, z) ==
    LET idx0 == (x + g.m_halfSize) * (g.m_size + 1)
        idx1 == (idx0 + (y + g.m_halfSize)) * (g.m_size + 1)
    IN  idx1 + (z + g.m_halfSize)

pointToIndex(g, x, y, z) ==
    LET idx0 == (y + g.m_halfSize) * (g.m_size + 1)
        idx1 == (idx0 + (x + g.m_halfSize)) * (g.m_size + 1)
    IN  idx1 + (z + g.m_halfSize)

indexToPoint(g, idx) ==
    LET z == (idx % (g.m_size + 1)) - g.m_halfSize
        i1 == idx \div (g.m_size + 1)
        x == (i1 % (g.m_size + 1)) - g.m_halfSize
        i2 == i1 \div (g.m_size + 1)
        y == i2 - g.m_halfSize
    IN  <<x, y, z>>

at(g, x, y, z) == g.m_mat.cells[pointToIndex(g, x, y, z)]

\* isEdgeInGrid<D>, isEdgeOnBorder<D>: the edge runs along axis D (0, 1, 2
\* for X, Y, Z); o1 and o2 are its coordinates on the other two axes
isEdgeInGrid(g, D, edgePos) ==
    LET along == edgePos[D + 1]
        o1 == edgePos[IF D = 0 THEN 2 ELSE 1]
        o2 == edgePos[IF D = 2 THEN 2 ELSE 3]
    IN  IF along < -g.m_halfSize \/ along >= g.m_halfSize THEN FALSE
        ELSE IF Abs(o1) > g.m_halfSize THEN FALSE
        ELSE IF Abs(o2) > g.m_halfSize THEN FALSE
        ELSE TRUE

\* mutant: only the first of the two other coordinates is tested
isEdgeOnBorderFirstOnly(g, D, edgePos) ==
    LET o1 == edgePos[IF D = 0 THEN 2 ELSE 1]
    IN  IF Abs(o1) = g.m_halfSize THEN TRUE ELSE FALSE

isEdgeOnBorder(g, D, edgePos) ==
    LET o1 == edgePos[IF D = 0 THEN 2 ELSE 1]
        o2 == edgePos[IF D = 2 THEN 2 ELSE 3]
    IN  IF Abs(o1) = g.m_halfSize THEN TRUE
        ELSE IF Abs(o2) = g.m_halfSize THEN TRUE
        ELSE FALSE

isCellInGrid(g, cellPos) ==
    IF cellPos[1] < -g.m_halfSize \/ cellPos[2] < -g.m_halfSize
          \/ cellPos[3] < -g.m_halfSize THEN FALSE
    ELSE IF cellPos[1] >= g.m_halfSize \/ cellPos[2] >= g.m_halfSize
          \/ cellPos[3] >= g.m_halfSize THEN FALSE
    ELSE TRUE

\* the four overwrites of a cells array: when the coordinate c is at the low
\* border, entries lo1 and lo2 become kBadIndex, at the high border hi1 and hi2
\* (array positions are 1..4 here for cells[0]..cells[3])
MarkBad(g, cells, c, lo1, lo2, hi1, hi2) ==
    LET low == IF c = -g.m_halfSize
               THEN [cells EXCEPT ![lo1] = kBadIndex, ![lo2] = kBadIndex]
               ELSE cells
    IN  IF c = g.m_halfSize
        THEN [low EXCEPT ![hi1] = kBadIndex, ![hi2] = kBadIndex]
        ELSE low

adjacentCellsForEdge0(g, edgePos) ==
    LET dy == (g.m_size + 1) * (g.m_size + 1)
        dz == 1
        c2 == pointToIndex(g, edgePos[1], edgePos[2], edgePos[3])
        cells == <<c2 - dy - dz, c2 - dz, c2, c2 - dy>>
    IN  MarkBad(g, MarkBad(g, cells, edgePos[2], 1, 4, 2, 3),
                edgePos[3], 1, 2, 3, 4)

\* mutant: the border tests on z of the X-axis version are used
adjacentCellsForEdge1WrongZ(g, edgePos) ==
    LET dx == g.m_size + 1
        dz == 1
        c2 == pointToIndex(g, edgePos[1], edgePos[2], edgePos[3])
        cells == <<c2 - dx - dz, c2 - dx, c2, c2 - dz>>
    IN  MarkBad(g, MarkBad(g, cells, edgePos[1], 1, 2, 3, 4),
                edgePos[3], 1, 2, 3, 4)

adjacentCellsForEdge1(g, edgePos) ==
    LET dx == g.m_size + 1
        dz == 1
        c2 == pointToIndex(g, edgePos[1], edgePos[2], edgePos[3])
        cells == <<c2 - dx - dz, c2 - dx, c2, c2 - dz>>
    IN  MarkBad(g, MarkBad(g, cells, edgePos[1], 1, 2, 3, 4),
                edgePos[3], 1, 4, 2, 3)

adjacentCellsForEdge2(g, edgePos) ==
    LET dx == g.m_size + 1
        dy == (g.m_size + 1) * (g.m_size + 1)
        c2 == pointToIndex(g, edgePos[1], edgePos[2], edgePos[3])
        cells == <<c2 - dx - dy, c2 - dy, c2, c2 - dx>>
    IN  MarkBad(g, MarkBad(g, cells, edgePos[1], 1, 4, 2, 3),
                edgePos[2], 1, 2, 3, 4)

adjacentCellsForEdge(g, D, edgePos) ==
    IF D = 0 THEN adjacentCellsForEdge0(g, edgePos)
    ELSE IF D = 1 THEN adjacentCellsForEdge1(g, edgePos)
    ELSE adjacentCellsForEdge2(g, edgePos)

----------------------------------------------------------------------------
(* QrQefSolver3D.  The header declares the working matrix A (4 columns of  *)
(* kRows rows), m_pointsSum, m_addedPoints, m_usedRows and the QefData     *)
(* record; addPlane, merge, reset, data and compressMatrix follow the      *)
(* description of the solver.                                              *)
(*                                                                         *)
(* compressMatrix and the triangular form of QefData act on A by           *)
(* orthogonal transformations from the left.  In exact arithmetic A is     *)
(* determined up to such a transformation by its Gram matrix A^T A, and    *)
(* that is how A (and the triangular coefficients of a QefData) are        *)
(* represented here: a 4 x 4 symmetric integer matrix, next to the count   *)
(* of active rows.  Normals are given in units of 1/5, so that unit        *)
(* normals such as (3/5, 4/5, 0) are integer vectors.                      *)

kRows == 8
\* the columns of A: three unknowns and the right-hand side
kCols == 4

ZeroGram == [i \in 1..kCols |-> [j \in 1..kCols |-> 0]]

RowGram(r) == [i \in 1..kCols |-> [j \in 1..kCols |-> r[i] * r[j]]]

GramAdd(G, H) == [i \in 1..kCols |-> [j \in 1..kCols |-> G[i][j] + H[i][j]]]

Dot(u, v) == u[1] * v[1] + u[2] * v[2] + u[3] * v[3]

\* the row addPlane inserts: the normal and its product with the point
PlaneRow(pl) ==
    <<pl.normal[1], pl.normal[2], pl.normal[3], Dot(pl.normal, pl.point)>>

\* the planes handed to the solvers
PlaneList ==
    << [point |-> <<1, 0, 2>>,  normal |-> <<5, 0, 0>>],
       [point |-> <<0, 3, -1>>, normal |-> <<3, 4, 0>>],
       [point |-> <<2, 2, 1>>,  normal |-> <<0, -3, 4>>] >>

\* QrQefSolver3D (), reset: the empty solver
EmptySolver ==
    [A |-> ZeroGram, m_pointsSum |-> <<0, 0, 0>>, m_addedPoints |-> 0,
     m_usedRows |-> 0]

\* compressMatrix: eliminates the rows down to the triangular core
compressMatrix(rows) == IF rows > kCols THEN kCols ELSE rows

\* mutant: the row is inserted without making room
addPlaneRowsNoCompress(rows) == rows + 1

\* the row count after addPlane: room is made first when the matrix is full
addPlaneRows(rows) ==
    (IF rows = kRows THEN compressMatrix(rows) ELSE rows) + 1

\* the row count after merge: the triangular rows of the record are appended
mergeRows(rows) ==
    (IF rows + kCols > kRows THEN compressMatrix(rows) ELSE rows) + kCols

addPlane(s, pl) ==
    [A             |-> GramAdd(s.A, RowGram(PlaneRow(pl))),
     m_pointsSum   |-> Plus3(s.m_pointsSum, pl.point),
     m_addedPoints |-> s.m_addedPoints + 1,
     m_usedRows    |-> addPlaneRows(s.m_usedRows)]

\* data (): the triangular core, the sum of the points and their count
data(s) == [R |-> s.A, mp |-> s.m_pointsSum, mp_cnt |-> s.m_addedPoints]

\* mutant: when room has to be made, the rows already held are dropped
mergeLosesRows(s, d) ==
    [A             |-> IF s.m_usedRows + kCols > kRows THEN d.R
                       ELSE GramAdd(s.A, d.R),
     m_pointsSum   |-> Plus3(s.m_pointsSum, d.mp),
     m_addedPoints |-> s.m_addedPoints + d.mp_cnt,
     m_usedRows    |-> mergeRows(s.m_usedRows)]

merge(s, d) ==
    [A             |-> GramAdd(s.A, d.R),
     m_pointsSum   |-> Plus3(s.m_pointsSum, d.mp),
     m_addedPoints |-> s.m_addedPoints + d.mp_cnt,
     m_usedRows    |-> mergeRows(s.m_usedRows)]

\* a solver to which the planes PlaneList[sq[1]], PlaneList[sq[2]], ... are added
RECURSIVE AddAll(_, _)
AddAll(s, sq) ==
    IF sq = << >> THEN s
    ELSE AddAll(addPlane(s, PlaneList[Head(sq)]), Tail(sq))

\* The other solvers whose data is merged in: seq lists the planes added to
\* it; with split > 0 it is itself the merge of two solvers, one holding the
\* first split planes and one holding the rest
OtherSolvers ==
    { [seq |-> << >>, split |-> 0],
      [seq |-> <<1>>, split |-> 0],
      [seq |-> <<2, 3>>, split |-> 0],
      [seq |-> <<3, 1, 2>>, split |-> 1],
      [seq |-> <<1, 2, 3, 1, 2, 3, 1, 2, 3>>, split |-> 0] }

NoMerge == [seq |-> << >>, split |-> -1]

BuildOther(o) ==
    IF o.split > 0
    THEN merge(AddAll(EmptySolver, SubSeq(o.seq, 1, o.split)),
               data(AddAll(EmptySolver, SubSeq(o.seq, o.split + 1, Len(o.seq)))))
    ELSE AddAll(EmptySolver, o.seq)

This == [A |-> A, m_pointsSum |-> m_pointsSum, m_addedPoints |-> m_addedPoints,
         m_usedRows |-> m_usedRows]

Count(sq, k) == Cardinality({i \in DOMAIN sq : sq[i] = k})

AddPlane(k) ==
    /\ m_addedPoints < MaxPoints
    /\ \E r \in {addPlane(This, PlaneList[k])} :
         /\ A' = r.A
         /\ m_pointsSum' = r.m_pointsSum
         /\ m_addedPoints' = r.m_addedPoints
         /\ m_usedRows' = r.m_usedRows
    /\ planes' = [planes EXCEPT ![k] = @ + 1]
    /\ lastMerge' = NoMerge
    /\ UNCHANGED <<gridVars, query>>

Merge(o) ==
    /\ m_addedPoints + Len(o.seq) <= MaxPoints
    /\ \E r \in {merge(This, data(BuildOther(o)))} :
         /\ A' = r.A
         /\ m_pointsSum' = r.m_pointsSum
         /\ m_addedPoints' = r.m_addedPoints
         /\ m_usedRows' = r.m_usedRows
    /\ planes' = [k \in DOMAIN planes |-> planes[k] + Count(o.seq, k)]
    /\ lastMerge' = o
    /\ UNCHANGED <<gridVars, query>>

\* data () brings the matrix to its triangular core before packing it
Data ==
    /\ m_usedRows > kCols
    /\ m_usedRows' = compressMatrix(m_usedRows)
    /\ UNCHANGED <<A, m_pointsSum, m_addedPoints, planes, lastMerge>>
    /\ UNCHANGED <<gridVars, query>>

Reset ==
    /\ A' = EmptySolver.A
    /\ m_pointsSum' = EmptySolver.m_pointsSum
    /\ m_addedPoints' = EmptySolver.m_addedPoints
    /\ m_usedRows' = EmptySolver.m_usedRows
    /\ planes' = [k \in DOMAIN PlaneList |-> 0]
    /\ lastMerge' = NoMerge
    /\ UNCHANGED <<gridVars, query>>

---------------------------------------------------------------------------------------------------------------------------------------------------
(* Calls of the addressing and topology queries on a constructed grid.     *)
(* query holds the call: op, its arguments (D, p or idx), and once the     *)
(* call is done, its result res.                                           *)

NoQuery == [op |-> "none", D |-> 0, p |-> <<0, 0, 0>>, idx |-> 0,
            done |-> FALSE, res |-> 0]

\* coordinates tried: the borders of the grid, their neighbours and the centre
CoordInputs(g) ==
    {c \in {-g.m_halfSize, 1 - g.m_halfSize, 0, g.m_halfSize - 1,
            g.m_halfSize} : Abs(c) <= g.m_halfSize}

\* indices tried: the first ones, the last ones and those around the strides
IndexInputs(g) ==
    LET n == dataSize(g)
        dx == g.m_size + 1
        dy == (g.m_size + 1) * (g.m_size + 1)
    IN  {i \in (0..MaxIndexProbe) \cup (n - 3 .. n - 1)
               \cup {dx - 1, dx, dy - 1, dy, dy + dx, n - dx, n - dy, n \div 2} :
           0 <= i /\ i < n}

\* the calls tried on grid g; each respects the precondition of its function
QueryInputs(g) ==
    {[NoQuery EXCEPT !.op = "pointToIndex", !.p = <<x, y, z>>] :
        x \in CoordInputs(g), y \in CoordInputs(g), z \in CoordInputs(g)}
    \cup {[NoQuery EXCEPT !.op = "indexToPoint", !.idx = i] : i \in IndexInputs(g)}
    \cup {q \in {[NoQuery EXCEPT !.op = "adjacentCellsForEdge", !.D = D,
                                 !.p = <<x, y, z>>] :
                   D \in 0..2, x \in CoordInputs(g), y \in CoordInputs(g),
                   z \in CoordInputs(g)} :
            isEdgeInGrid(g, q.D, q.p)}

CallPointToIndex ==
    /\ pc = "constructed"
    /\ query.op = "pointToIndex" /\ ~query.done
    /\ query' = [query EXCEPT !.done = TRUE,
                   !.res = pointToIndex(Self, query.p[1], query.p[2], query.p[3])]
    /\ UNCHANGED <<gridVars, qefVars>>

CallIndexToPoint ==
    /\ pc = "constructed"
    /\ query.op = "indexToPoint" /\ ~query.done
    /\ query' = [query EXCEPT !.done = TRUE,
                   !.res = indexToPoint(Self, query.idx)]
    /\ UNCHANGED <<gridVars, qefVars>>

CallAdjacentCellsForEdge ==
    /\ pc = "constructed"
    /\ query.op = "adjacentCellsForEdge" /\ ~query.done
    /\ query' = [query EXCEPT !.done = TRUE,
                   !.res = adjacentCellsForEdge(Self, query.D, query.p)]
    /\ UNCHANGED <<gridVars, qefVars>>

-----
(* Specifications *)

SizeInputs == (0..MaxSmallSize) \cup {1023, 1024, 1025, 2048}
Origins == {<<2, 0, 0>>}
GridSteps == {2}

GridInit ==
    /\ pc = "start"
    /\ err = "none"
    /\ argSize = 0
    /\ m_size = 0
    /\ m_halfSize = 0
    /\ m_globalPos = <<0, 0, 0>>
    /\ m_gridStep = 0
    /\ m_mat = NullMat
    /\ m_edgeX = NoEdges
    /\ m_edgeY = NoEdges
    /\ m_edgeZ = NoEdges
    /\ lastField = NoField
    /\ lastSolver = "none"
    /\ fills = 0
    /\ matCalls = << >>

\* QrQefSolver3D (): the empty solver
QefInit ==
    /\ m_usedRows = EmptySolver.m_usedRows
    /\ m_addedPoints = EmptySolver.m_addedPoints
    /\ A = EmptySolver.A
    /\ m_pointsSum = EmptySolver.m_pointsSum
    /\ planes = [k \in DOMAIN PlaneList |-> 0]
    /\ lastMerge = NoMerge

\* The grid's life: construction with any size, then fills
Init == GridInit /\ query = NoQuery /\ QefInit

Next ==
    \/ \E size \in SizeInputs, o \in Origins, h \in GridSteps : Construct(size, o, h)
    \/ \E f \in Fields, s \in Solvers : Fill(f, s)

Spec == Init /\ [][Next]_vars

\* One query, with any of the arguments tried, on a freshly constructed grid
\* of any valid size
InitAddr ==
    /\ pc = "constructed"
    /\ err = "none"
    /\ argSize \in {n \in SizeInputs : CtorCheck(n) = "none"}
    /\ m_size = argSize
    /\ m_halfSize = argSize \div 2
    /\ m_globalPos \in Origins
    /\ m_gridStep \in GridSteps
    /\ m_mat = NewMat((argSize + 1) * (argSize + 1) * (argSize + 1))
    /\ m_edgeX = NoEdges
    /\ m_edgeY = NoEdges
    /\ m_edgeZ = NoEdges
    /\ lastField = NoField
    /\ lastSolver = "none"
    /\ fills = 0
    /\ matCalls = << >>
    /\ QefInit
    /\ query \in QueryInputs([m_size |-> m_size, m_halfSize |-> m_halfSize])

NextAddr ==
    \/ CallPointToIndex
    \/ CallIndexToPoint
    \/ CallAdjacentCellsForEdge

SpecAddr == InitAddr /\ [][NextAddr]_vars

\* The QEF solver
NextQef ==
    \/ \E k \in DOMAIN PlaneList : AddPlane(k)
    \/ \E o \in OtherSolvers : Merge(o)
    \/ Data
    \/ Reset

SpecQef == Init /\ [][NextQef]_vars

----------------------------------------------------------------------------
(* Vocabulary of the properties *)

filled == pc = "constructed" /\ fills > 0

Vertices ==
    {<<x, y, z>> : x \in -m_halfSize..m_halfSize, y \in -m_halfSize..m_halfSize,
                   z \in -m_halfSize..m_halfSize}

Unit(D) == [i \in 1..3 |-> IF i = D + 1 THEN 1 ELSE 0]

Plus(p, u) == [i \in 1..3 |-> p[i] + u[i]]

\* the lattice edges parallel to axis D, by their lower endpoint
LatticeEdges(D) == {e \in Vertices : Plus(e, Unit(D)) \in Vertices}

\* the value of the field of the last fill at lattice vertex p
SampledValue(p) == FieldValue(lastField, localToGlobal(Self, p))

Inside(p) == SampledValue(p) <= 0

Crossing(D, e) == Inside(e) # Inside(Plus(e, Unit(D)))

EdgeList(D) == IF D = 0 THEN m_edgeX ELSE IF D = 1 THEN m_edgeY ELSE m_edgeZ

Key(entry) == <<entry.x, entry.y, entry.z>>

StoredAt(p) == at(Self, p[1], p[2], p[3])

----------------------------------------------------------------------------
(* Properties of fill *)

\* C1: after fill, the edge list of each axis holds exactly one entry for
\* every lattice edge along that axis whose endpoints disagree on
\* (value <= 0), keyed by the edge's lower endpoint, and no other entry.
C1_CrossingsExact ==
    filled =>
      \A D \in 0..2 :
        LET L == EdgeList(D)
        IN  /\ \A i \in DOMAIN L :
                 /\ L[i].axis = D
                 /\ Key(L[i]) \in LatticeEdges(D)
                 /\ Crossing(D, Key(L[i]))
            /\ \A e \in LatticeEdges(D) :
                 Crossing(D, e) =>
                   Cardinality({i \in DOMAIN L : Key(L[i]) = e}) = 1

\* a size-4 grid filled so that every axis has crossing and non-crossing edges
C1_Witness ==
    /\ filled /\ m_size = 4
    /\ \A D \in 0..2 :
         /\ Len(EdgeList(D)) > 0
         /\ \E e \in LatticeEdges(D) : ~Crossing(D, e)

\* C2: after fill, the stored material of a vertex is Empty when the sampled
\* value is > 0 and the material the field reports when it is <= 0 (exactly
\* zero is inside).
C2_MaterialBySign ==
    filled =>
      \A p \in Vertices :
        StoredAt(p) = IF SampledValue(p) > 0 THEN Empty
                      ELSE FieldMaterial(lastField, localToGlobal(Self, p),
                                         SampledValue(p))

\* a filled grid with a vertex of value exactly zero, one inside and one outside
C2_Witness ==
    /\ filled /\ m_size = 4
    /\ \E p \in Vertices : SampledValue(p) = 0 /\ StoredAt(p) # Empty
    /\ \E p \in Vertices : SampledValue(p) < 0 /\ StoredAt(p) # Empty
    /\ \E p \in Vertices : SampledValue(p) > 0 /\ StoredAt(p) = Empty

\* C4: every recorded offset lies in the half-open interval [0, 1), whatever
\* coordinate between the two bounds the root finder returns.
C4_OffsetHalfOpen ==
    \A D \in 0..2 :
      \A i \in DOMAIN EdgeList(D) :
        LET o == EdgeList(D)[i].offset
        IN  0 <= o.num /\ o.num < o.den

\* C5: the orientation flag of an entry is true exactly when the lower
\* endpoint is inside, and its material is the stored material of the
\* inside endpoint.
C5_OrientationAndMaterial ==
    filled =>
      \A D \in 0..2 :
        \A i \in DOMAIN EdgeList(D) :
          LET en == EdgeList(D)[i]
              lower == Key(en)
              upper == Plus(Key(en), Unit(D))
          IN  /\ en.sign = Inside(lower)
              /\ en.mat = IF en.sign THEN StoredAt(lower) ELSE StoredAt(upper)

\* a fill that recorded entries of both orientations and of both materials
C5_Witness ==
    /\ filled
    /\ \E D \in 0..2 : \E i \in DOMAIN EdgeList(D) :
         EdgeList(D)[i].sign /\ EdgeList(D)[i].mat = Soil
    /\ \E D \in 0..2 : \E i \in DOMAIN EdgeList(D) :
         ~EdgeList(D)[i].sign /\ EdgeList(D)[i].mat = Stone

\* the grid as it was constructed: same size, origin and step, nothing filled
FreshGrid ==
    [Self EXCEPT !.m_mat = NewMat(dataSize(Self)), !.m_edgeX = NoEdges,
                 !.m_edgeY = NoEdges, !.m_edgeZ = NoEdges]

\* C7: after any sequence of fills the material array and the three edge
\* lists are what one fill with the last field (and root finder) produces on
\* a freshly constructed grid of the same size.
C7_LastFillOnly ==
    filled => Self = FillResult(FreshGrid, lastField, lastSolver).grid

\* a grid filled a second time, with crossings recorded
C7_Witness ==
    /\ filled /\ fills >= 2
    /\ Len(m_edgeX) > 0 /\ Len(m_edgeY) + Len(m_edgeZ) > 0

\* C9: during a fill, field.material is called exactly once for each vertex
\* whose value is <= 0, with that vertex's position and value, and never for
\* a vertex whose value is > 0.
C9_MaterialCalls ==
    filled =>
      /\ \A p \in Vertices :
           LET gp == localToGlobal(Self, p)
               hits == {i \in DOMAIN matCalls : matCalls[i].point = gp}
           IN  /\ Cardinality(hits) = IF SampledValue(p) <= 0 THEN 1 ELSE 0
               /\ \A i \in hits : matCalls[i].value = SampledValue(p)
      /\ \A i \in DOMAIN matCalls :
           \E p \in Vertices : matCalls[i].point = localToGlobal(Self, p)

\* a fill with vertices on both sides, so some calls were made and some not
C9_Witness ==
    /\ filled
    /\ Len(matCalls) > 0
    /\ \E p \in Vertices : SampledValue(p) = 0
    /\ \E p \in Vertices : SampledValue(p) > 0

----------------------------------------------------------------------------
(* Properties of construction *)

IsPowerOfTwo(n) == \E k \in 0..30 : 2 ^ k = n

\* C6: construction succeeds exactly when size is a power of two with
\* 2 <= size <= 1024; otherwise it throws a parameter error and the material
\* array is never allocated.
C6_ConstructionPolicy ==
    pc # "start" =>
      /\ pc = "constructed"
           <=> (IsPowerOfTwo(argSize) /\ 2 <= argSize /\ argSize <= 1024)
      /\ pc = "constructed" => err = "none" /\ m_mat.len = dataSize(Self)
      /\ pc = "thrown" =>
           /\ err \in {"invalid_argument", "length_error"}
           /\ m_mat = NullMat

\* the largest accepted size was constructed
C6_Witness == pc = "constructed" /\ argSize = 1024

----------------------------------------------------------------------------
(* Properties of the addressing and topology queries *)

\* C3: pointToIndex and indexToPoint are inverse to each other between the
\* lattice coordinates in [-halfSize, halfSize]^3 and the indices
\* 0 .. (size+1)^3 - 1.
C3_AddressRoundTrip ==
    query.done =>
      /\ query.op = "pointToIndex" =>
           /\ 0 <= query.res /\ query.res < dataSize(Self)
           /\ indexToPoint(Self, query.res) = query.p
      /\ query.op = "indexToPoint" =>
           /\ \A i \in 1..3 : Abs(query.res[i]) <= m_halfSize
           /\ pointToIndex(Self, query.res[1], query.res[2], query.res[3])
                = query.idx

\* the highest vertex of the largest grid was mapped to the last index
C3_Witness ==
    /\ query.done /\ query.op = "pointToIndex"
    /\ m_size = 1024
    /\ query.p = <<m_halfSize, m_halfSize, m_halfSize>>
    /\ query.res = dataSize(Self) - 1

\* the cells (by lower corner) that have the edge at e along axis D as an edge
CellsSharingEdge(D, e) ==
    {c \in {Plus(e, [i \in 1..3 |-> -d[i]]) :
              d \in {dd \in [1..3 -> {0, 1}] : dd[D + 1] = 0}} : TRUE}

\* a cell lies in the grid when its eight corners are lattice vertices
CellInside(c) == \A i \in 1..3 : -m_halfSize <= c[i] /\ c[i] < m_halfSize

\* C8: adjacentCellsForEdge returns four entries; the entries that are not
\* the sentinel are, without repetition, the indices of the in-grid cells
\* sharing the edge, and there is one sentinel for each neighbouring cell
\* that falls outside the grid.
C8_AdjacentCells ==
    (query.done /\ query.op = "adjacentCellsForEdge") =>
      LET cells == query.res
          inGrid == {c \in CellsSharingEdge(query.D, query.p) : CellInside(c)}
      IN  /\ Len(cells) = 4
          /\ Cardinality(CellsSharingEdge(query.D, query.p)) = 4
          /\ {cells[i] : i \in 1..4} \ {kBadIndex}
               = {pointToIndex(Self, c[1], c[2], c[3]) : c \in inGrid}
          /\ Cardinality({i \in 1..4 : cells[i] # kBadIndex})
               = Cardinality(inGrid)
          /\ \A c \in CellsSharingEdge(query.D, query.p) :
               isCellInGrid(Self, c) <=> CellInside(c)

\* an edge on a face of the largest grid: two neighbours inside, two outside
C8_Witness ==
    /\ query.done /\ query.op = "adjacentCellsForEdge"
    /\ m_size = 1024
    /\ Cardinality({i \in 1..4 : query.res[i] = kBadIndex}) = 2

\* C12: for an in-grid edge, isEdgeOnBorder is true exactly when
\* adjacentCellsForEdge returns at least one sentinel entry, that is when the
\* edge has fewer than four in-grid adjacent cells.
C12_BorderIffSentinel ==
    (query.done /\ query.op = "adjacentCellsForEdge") =>
      /\ isEdgeInGrid(Self, query.D, query.p)
      /\ isEdgeOnBorder(Self, query.D, query.p)
           <=> (\E i \in 1..4 : query.res[i] = kBadIndex)
      /\ isEdgeOnBorder(Self, query.D, query.p)
           <=> Cardinality({i \in 1..4 : query.res[i] # kBadIndex}) < 4

\* a border edge of a size-4 grid that lies on one face only, along Y
C12_Witness ==
    /\ query.done /\ query.op = "adjacentCellsForEdge"
    /\ m_size = 4 /\ query.D = 1
    /\ isEdgeOnBorder(Self, query.D, query.p)
    /\ Cardinality({i \in 1..4 : query.res[i] = kBadIndex}) = 2

----------------------------------------------------------------------------
(* Properties of the QR-based solver *)

\* k copies of plane number i
Rep(i, k) == [j \in 1..k |-> i]

\* the planes folded into the solver, each as often as it was, in ascending
\* and in descending order of their number
Ascending(b) == Rep(1, b[1]) \o Rep(2, b[2]) \o Rep(3, b[3])
Descending(b) == Rep(3, b[3]) \o Rep(2, b[2]) \o Rep(1, b[1])

\* what the solver held before the last merge
Mine == [k \in DOMAIN planes |-> planes[k] - Count(lastMerge.seq, k)]

C10_RowBudget == m_usedRows <= kRows

\* the matrix is full again after more planes were folded in than it has rows
C10_Witness == m_usedRows = kRows /\ m_addedPoints > kRows

====
